---- MODULE Spec2Model ----
(***************************************************************************)
(* Model of src/common/color/helper.ts (reaviz): getColor, rangeHelper,    *)
(* getValueScale, getColorSchemeForProperty, createColorSchemeValueScales  *)
(* and getColorSchemeStyles, together with the d3 scales they construct.   *)
(*                                                                         *)
(* JavaScript values are tagged records: the tag t is what typeof and      *)
(* Array.isArray tell apart.  A call that raises a TypeError yields Throw. *)
(* JavaScript positions are 0-based; the sequences here are 1-based, so    *)
(* the element at JavaScript index i is a[i + 1].                          *)
(***************************************************************************)
EXTENDS Integers, Sequences, FiniteSets, TLC

VARIABLES pc, args, after, ret, domain, scaleDom, first, extended, valueScales

vars == <<pc, args, after, ret, domain, scaleDom, first, extended, valueScales>>

(***************************************************************************)
(* Bounds of the model.                                                    *)
(***************************************************************************)
\* longest series (inner data array) the inputs hold
MaxSeries == 3
\* longest palette the inputs hold
MaxPalette == 3
\* most series in a multi-series data collection
MaxOuter == 2
\* largest numeric value of a data point
MaxVal == 3

(***************************************************************************)
(* JavaScript values.                                                      *)
(***************************************************************************)
Undef == [t |-> "undefined"]
Null == [t |-> "null"]
Throw == [t |-> "throw"]
Str(s) == [t |-> "string", s |-> s]
Num(n) == [t |-> "number", n |-> n]
Bool(b) == [t |-> "boolean", b |-> b]
Arr(a) == [t |-> "array", a |-> a]
Obj(f) == [t |-> "object", f |-> f]
Fn(id) == [t |-> "function", id |-> id]
\* what a caller-supplied callback returns: a value fixed by the callback and
\* the three arguments it was invoked with
Applied(f, p, i, a) == [t |-> "applied", f |-> f, p |-> p, i |-> i, a |-> a]

\* the d3 scale constructors a caller can pass as props.scale
ScaleOrdinal == Fn("scaleOrdinal")
ScaleQuantile == Fn("scaleQuantile")

\* JavaScript truthiness (the model's strings are never empty)
Truthy(v) ==
  CASE v.t \in {"undefined", "null"} -> FALSE
    [] v.t = "number" -> v.n # 0
    [] v.t = "boolean" -> v.b
    [] OTHER -> TRUE

\* typeof v === 'object'
TypeofObject(v) == v.t \in {"object", "null", "array"}

\* v[name]: a TypeError on undefined and null, the field of an object, the
\* length of an array, undefined otherwise
Get(v, name) ==
  CASE v.t \in {"undefined", "null", "throw"} -> Throw
    [] v.t = "object" -> IF name \in DOMAIN v.f THEN v.f[name] ELSE Undef
    [] v.t = "array" -> IF name = "length" THEN Num(Len(v.a)) ELSE Undef
    [] OTHER -> Undef

\* the elements of a sequence, as a set
Range(s) == {s[i] : i \in 1..Len(s)}

\* a sequence without its repeated elements, first occurrences kept in order
RECURSIVE Dedup(_)
Dedup(s) ==
  IF s = <<>> THEN <<>>
  ELSE LET front == Dedup(SubSeq(s, 1, Len(s) - 1))
           x == s[Len(s)]
       IN IF x \in Range(front) THEN front ELSE Append(front, x)

\* 0-based position of the first occurrence of x in s, Len(s) when absent
IndexOf(s, x) ==
  IF x \in Range(s) THEN (CHOOSE i \in 1..Len(s) :
                            s[i] = x /\ \A j \in 1..(i - 1) : s[j] # x) - 1
  ELSE Len(s)

\* a sequence of integers in ascending order (Array.prototype.sort with d3's
\* ascending comparator)
RECURSIVE SortAsc(_)
SortAsc(s) ==
  IF s = <<>> THEN <<>>
  ELSE LET m == CHOOSE i \in 1..Len(s) : \A j \in 1..Len(s) : s[i] <= s[j]
       IN <<s[m]>> \o SortAsc(SubSeq(s, 1, m - 1) \o SubSeq(s, m + 1, Len(s)))

(***************************************************************************)
(* The table of named schemes (./schemes): one predefined palette.         *)
(***************************************************************************)
schemes == [cybertron |-> Arr(<<Str("#4C86FF"), Str("#40D3F4"), Str("#40E5D1")>>)]

\* schemes[name]: undefined for a name the table does not hold
schemeLookup(name) == IF name \in DOMAIN schemes THEN schemes[name] ELSE Undef

(***************************************************************************)
(* rangeHelper(point, attribute): the key attribute of every element of a  *)
(* series.  Array.prototype.map of a value that is no array is a TypeError.*)
(***************************************************************************)
rangeHelperNestedFirst(point, attribute) ==
  IF point.t # "array" THEN Throw
  ELSE Arr([i \in 1..Len(point.a) |->
         LET r == point.a[i]
         IN IF Truthy(r) /\ Truthy(Get(r, "data"))
                 /\ Get(Get(r, "data"), attribute) # Undef
            THEN Get(Get(r, "data"), attribute)
            ELSE IF Truthy(r) /\ Get(r, attribute) # Undef
            THEN Get(r, attribute)
            ELSE Num(i - 1)])

rangeHelper(point, attribute) ==
  IF point.t # "array" THEN Throw
  ELSE Arr([i \in 1..Len(point.a) |->
         LET r == point.a[i]
         IN IF Truthy(r) /\ Get(r, attribute) # Undef
            THEN Get(r, attribute)
            ELSE IF Truthy(r) /\ Truthy(Get(r, "data"))
                      /\ Get(Get(r, "data"), attribute) # Undef
            THEN Get(Get(r, "data"), attribute)
            ELSE Num(i - 1)])

(***************************************************************************)
(* d3-array maxIndex(values, valueof) over the accessor's results: the     *)
(* 0-based position of the first greatest number, undefined results        *)
(* skipped, -1 when there is none.                                         *)
(***************************************************************************)
maxIndexLast(vals) ==
  IF \A i \in 1..Len(vals) : vals[i].t # "number" THEN -1
  ELSE (CHOOSE i \in 1..Len(vals) :
          /\ vals[i].t = "number"
          /\ \A j \in 1..Len(vals) :
               vals[j].t = "number" =>
                 \/ vals[j].n < vals[i].n
                 \/ (vals[j].n = vals[i].n /\ j <= i)) - 1

maxIndex(vals) ==
  IF \A i \in 1..Len(vals) : vals[i].t # "number" THEN -1
  ELSE (CHOOSE i \in 1..Len(vals) :
          /\ vals[i].t = "number"
          /\ \A j \in 1..Len(vals) :
               vals[j].t = "number" =>
                 \/ vals[j].n < vals[i].n
                 \/ (vals[j].n = vals[i].n /\ j >= i)) - 1

\* the series getColor derives the domain from when isMultiSeries is set:
\* data[maxIndex(data, d => d.data.length)].data
multiSeriesData(data) ==
  LET lens == [i \in 1..Len(data.a) |-> Get(Get(data.a[i], "data"), "length")]
      maxIdx == maxIndex(lens)
      maxVal == IF maxIdx = -1 THEN Undef ELSE data.a[maxIdx + 1]
  IN IF \E i \in 1..Len(data.a) : lens[i] = Throw THEN Throw
     ELSE Get(maxVal, "data")

(***************************************************************************)
(* d3-scale.  A scale is constructed over a copy of the palette (its       *)
(* range) and a copy of the domain.                                        *)
(***************************************************************************)
\* no scale has been constructed
NoScale == <<[t |-> "none"]>>

\* the domain a newly constructed ordinal scale holds after .domain(dom): the
\* distinct values of dom in order; prev is the domain the scale of an earlier
\* call ended with
newScaleDomainShared(prev, dom) ==
  IF prev = NoScale THEN Dedup(dom) ELSE Dedup(prev \o dom)

newScaleDomain(prev, dom) == Dedup(dom)

\* scaleOrdinal(range).domain(dom)(key): a key outside the domain is appended
\* to the scale's own domain (the implicit domain); the range is recycled.
\* domArg is the array passed to .domain() as the call leaves it: the scale
\* works on its copy
ordinalScaleNoRecycle(range, dom, key, prev) ==
  LET sd == newScaleDomain(prev, dom)
      i == IndexOf(sd, key)
  IN [ret |-> IF Len(range) = 0 THEN Undef
              ELSE IF i < Len(range) THEN range[i + 1] ELSE range[Len(range)],
      scaleDom |-> IF i = Len(sd) THEN Append(sd, key) ELSE sd,
      domArg |-> dom]

ordinalScale(range, dom, key, prev) ==
  LET sd == newScaleDomain(prev, dom)
      i == IndexOf(sd, key)
  IN [ret |-> IF Len(range) = 0 THEN Undef ELSE range[(i % Len(range)) + 1],
      scaleDom |-> IF i = Len(sd) THEN Append(sd, key) ELSE sd,
      domArg |-> dom]

\* scaleQuantile(range).domain(dom)(x): the numbers of dom, sorted; n - 1
\* thresholds quantileSorted(domain, k / n); the range entry at the count of
\* thresholds <= x (bisectRight); undefined (the scale's unknown) for a value
\* that is no number.  The model's values are integers, absent, or strings
\* that do not parse as numbers.
quantileScale(range, dom, x) ==
  LET nums == SelectSeq(dom, LAMBDA d : d.t = "number")
      sd == SortAsc([i \in 1..Len(nums) |-> nums[i].n])
      m == Len(sd)
      n == IF Len(range) > 1 THEN Len(range) ELSE 1
      AtLeast(k) ==
        IF m = 0 THEN FALSE
        ELSE IF m < 2 THEN x.n >= sd[1]
        ELSE LET i0 == ((m - 1) * k) \div n
                 rem == ((m - 1) * k) % n
             IN x.n * n >= sd[i0 + 1] * n + (sd[i0 + 2] - sd[i0 + 1]) * rem
      idx == Cardinality({k \in 1..(n - 1) : AtLeast(k)})
  IN [ret |-> IF x.t # "number" \/ Len(range) = 0 THEN Undef
              ELSE range[idx + 1],
      scaleDom |-> [i \in 1..m |-> Num(sd[i])],
      domArg |-> dom]

\* scale(colorScheme).domain(domain)(key)
applyScale(scale, range, dom, key, prev) ==
  IF dom.t # "array" THEN [ret |-> Throw, scaleDom |-> NoScale, domArg |-> dom]
  ELSE IF scale = ScaleOrdinal
  THEN LET r == ordinalScale(range, dom.a, key, prev)
       IN [ret |-> r.ret, scaleDom |-> r.scaleDom, domArg |-> Arr(r.domArg)]
  ELSE IF scale = ScaleQuantile
  THEN LET r == quantileScale(range, dom.a, key)
       IN [ret |-> r.ret, scaleDom |-> r.scaleDom, domArg |-> Arr(r.domArg)]
  ELSE [ret |-> Throw, scaleDom |-> NoScale, domArg |-> dom]

(***************************************************************************)
(* getColor(props).  An absent property of props is Undef.  Besides the    *)
(* returned value (ret) the result records the domain local once it is     *)
(* accepted or derived (lines 70-78), the domain the constructed scale     *)
(* ends with, and the caller's props object as the call leaves it (props): *)
(* getColor assigns only to its own locals.                                *)
(***************************************************************************)
NoDomain == [t |-> "none"]

\* lines 65-67: a string that names a predefined scheme is replaced by it
resolveSchemeUnchecked(colorScheme) ==
  IF colorScheme.t = "string" THEN schemeLookup(colorScheme.s) ELSE colorScheme

resolveScheme(colorScheme) ==
  IF colorScheme.t = "string" /\ Truthy(schemeLookup(colorScheme.s))
  THEN schemeLookup(colorScheme.s)
  ELSE colorScheme

\* line 84: colorScheme(point, index, active)
callbackIndexDropped(colorScheme, props) ==
  Applied(colorScheme.id, props.point, Undef, props.active)

callback(colorScheme, props) ==
  Applied(colorScheme.id, props.point, props.index, props.active)

getColor(props, prev) ==
  LET attribute == IF props.attribute = Undef THEN "key" ELSE props.attribute.s
      isMultiSeries == IF props.isMultiSeries = Undef THEN Bool(FALSE)
                       ELSE props.isMultiSeries
      scale == IF props.scale = Undef THEN ScaleOrdinal ELSE props.scale
      colorScheme == resolveScheme(props.colorScheme)
  IN IF colorScheme.t = "array" THEN
       LET data == IF Truthy(isMultiSeries) /\ props.data.t = "array"
                   THEN multiSeriesData(props.data)
                   ELSE props.data
           dom == IF Truthy(props.domain) THEN props.domain
                  ELSE rangeHelper(data, attribute)
           key == IF props.key # Undef THEN props.key
                  ELSE Get(props.point, attribute)
       IN IF dom = Throw
          THEN [ret |-> Throw, domain |-> NoDomain, scaleDom |-> NoScale,
                props |-> props]
          ELSE IF key = Throw
          THEN [ret |-> Throw, domain |-> dom, scaleDom |-> NoScale,
                props |-> props]
          ELSE LET r == applyScale(scale, colorScheme.a, dom, key, prev)
               IN [ret |-> r.ret, domain |-> dom, scaleDom |-> r.scaleDom,
                   props |-> IF Truthy(props.domain)
                             THEN [props EXCEPT !.domain = r.domArg]
                             ELSE props]
     ELSE IF colorScheme.t = "function"
     THEN [ret |-> callback(colorScheme, props),
           domain |-> NoDomain, scaleDom |-> NoScale, props |-> props]
     ELSE [ret |-> colorScheme, domain |-> NoDomain, scaleDom |-> NoScale,
           props |-> props]

(***************************************************************************)
(* Inputs.                                                                 *)
(***************************************************************************)
\* all sequences over S of length 0..n
SeqsUpTo(S, n) == UNION {[1..k -> S] : k \in 0..n}

Colors == <<Str("red"), Str("green"), Str("blue"), Str("cyan"), Str("pink")>>

\* flat palettes: the first n colors, n = 0..MaxPalette
Palettes == {Arr(SubSeq(Colors, 1, n)) : n \in 0..MaxPalette}

\* elements of a series: keyed, keyed with a second attribute, keyed through
\* the nested data field only, and absent
Elems ==
  { Obj([key |-> Str("a")]),
    Obj([key |-> Str("b"), id |-> Num(0)]),
    Obj([key |-> Num(1), id |-> Str("b"), data |-> Num(5)]),
    Obj([data |-> Obj([key |-> Str("c")])]),
    Null }

SeriesSet == {Arr(s) : s \in SeqsUpTo(Elems, MaxSeries)}

\* the series of a multi-series collection: of every length up to MaxSeries,
\* keyed upwards, keyed downwards and without keys; and entries that are no
\* series
SeriesOf(n, variant) ==
  Arr([i \in 1..n |->
         CASE variant = "up" -> Obj([key |-> Num(i)])
           [] variant = "down" -> Obj([key |-> Num(n + 1 - i)])
           [] OTHER -> Obj([id |-> Str("a")])])

OuterElems ==
  {Obj([key |-> Str("s"), data |-> SeriesOf(n, v)]) :
     n \in 0..MaxSeries, v \in {"up", "down", "unkeyed"}}
    \cup {Obj([key |-> Str("s")]), Null}

MultiSet == {Arr(s) : s \in SeqsUpTo(OuterElems, MaxOuter)}

Props(colorScheme, point, data, index, active, dom, key, attribute, scale, isMultiSeries) ==
  [colorScheme |-> colorScheme, point |-> point, data |-> data, index |-> index,
   active |-> active, domain |-> dom, key |-> key, attribute |-> attribute,
   scale |-> scale, isMultiSeries |-> isMultiSeries]

\* palette over a single series, everything else defaulted
PaletteProps ==
  {Props(cs, pt, d, Undef, Undef, Undef, Undef, at, Undef, Undef) :
     cs \in Palettes,
     pt \in {Undef, Null, Obj([key |-> Str("a")]),
             Obj([key |-> Num(1), id |-> Str("b"), data |-> Num(5)])},
     d \in SeriesSet \cup {Undef},
     at \in {Undef, Str("id")}}

\* the other properties a caller may set: explicit domain, key and scale
Overrides ==
  [domain : {Undef, Arr(<<Str("b"), Str("a"), Str("b")>>), Arr(<<Num(0), Num(MaxVal)>>)},
   key : {Undef, Str("a"), Str("z"), Num(1)},
   scale : {Undef, ScaleOrdinal, ScaleQuantile},
   attribute : {Undef, Str("id")},
   isMultiSeries : {Undef, Bool(TRUE)},
   data : {Undef, Arr(<<Obj([key |-> Str("b")]), Obj([key |-> Str("a")])>>),
           Arr(<<Obj([key |-> Str("s"), data |-> Arr(<<Obj([key |-> Str("a")])>>)])>>)}]

OverrideProps ==
  {Props(cs, pt, o.data, Undef, Undef, o.domain, o.key, o.attribute, o.scale,
         o.isMultiSeries) :
     cs \in Palettes, pt \in {Undef, Obj([key |-> Str("a")])}, o \in Overrides}

MultiProps ==
  {Props(cs, pt, d, Undef, Undef, Undef, Undef, Undef, Undef, Bool(TRUE)) :
     cs \in {Arr(SubSeq(Colors, 1, 2))}, pt \in {Undef, Obj([key |-> Str("b")])}, d \in MultiSet}

Callbacks == {Fn("byIndex"), Fn("byActive")}

CallbackProps ==
  {Props(cs, pt, o.data, i, a, o.domain, o.key, o.attribute, o.scale,
         o.isMultiSeries) :
     cs \in Callbacks, pt \in {Undef, Obj([key |-> Str("a")])},
     i \in {Undef, Num(0), Num(1)}, a \in {Undef, Arr(<<Str("a")>>)},
     o \in Overrides}

\* values that are neither arrays nor functions
Literals == {Str("purple"), Str("cybertron"), Str("unknownScheme"), Undef, Null, Num(5)}

LiteralProps ==
  {Props(cs, pt, o.data, i, Undef, o.domain, o.key, o.attribute, o.scale,
         o.isMultiSeries) :
     cs \in Literals, pt \in {Undef, Obj([key |-> Str("a")])},
     i \in {Undef, Num(1)}, o \in Overrides}

(***************************************************************************)
(* State.  pc is the position of the run: "start" before the call whose    *)
(* arguments are in args, then "returned" (getColor, rangeHelper),         *)
(* "created" (createColorSchemeValueScales), "scaled" (a value scale was   *)
(* invoked) or "styled" (getColorSchemeStyles).  after is the caller's     *)
(* props as the last getColor call left them, ret what the last call       *)
(* returned, domain the domain local of the last getColor call, scaleDom   *)
(* the domain the scale it constructed ended with, first the first         *)
(* getColor call of the run with its result, extended whether some call    *)
(* of the run extended its scale's implicit domain, valueScales the map    *)
(* returned by createColorSchemeValueScales.                               *)
(***************************************************************************)
NoCall == [t |-> "none"]
NoMap == [t |-> "none"]

ColorProps ==
  PaletteProps \cup OverrideProps \cup MultiProps \cup CallbackProps
    \cup LiteralProps

\* nothing has been called yet
Idle ==
  /\ after = NoCall
  /\ ret = Undef
  /\ domain = NoDomain
  /\ scaleDom = NoScale
  /\ first = NoCall
  /\ extended = FALSE
  /\ valueScales = NoMap

InitColor ==
  /\ pc = "start"
  /\ args \in ColorProps
  /\ Idle

\* one call of getColor with the arguments in args
GetColorCall ==
  /\ pc = "start"
  /\ LET r == getColor(args, scaleDom)
     IN /\ ret' = r.ret
        /\ domain' = r.domain
        /\ scaleDom' = r.scaleDom
        /\ after' = r.props
  /\ pc' = "returned"
  /\ UNCHANGED <<args, first, extended, valueScales>>

NextColor == GetColorCall

SpecColor == InitColor /\ [][NextColor]_vars

(***************************************************************************)
(* Properties of getColor, checked under SpecColor.                        *)
(***************************************************************************)
\* v is an object that has the attribute itself
Carries(v, attribute) == v.t = "object" /\ Get(v, attribute) # Undef

AttributeOf(props) ==
  IF props.attribute = Undef THEN "key" ELSE props.attribute.s

\* the case of C1: a non-empty palette, a series whose elements carry pairwise
\* distinct values of the attribute, no domain, no key, not multi-series, the
\* default ordinal scale
C1_Case ==
  /\ pc = "returned"
  /\ args.colorScheme.t = "array"
  /\ Len(args.colorScheme.a) > 0
  /\ args.data.t = "array"
  /\ \A i \in 1..Len(args.data.a) : Carries(args.data.a[i], AttributeOf(args))
  /\ \A i, j \in 1..Len(args.data.a) :
       i # j => Get(args.data.a[i], AttributeOf(args))
                  # Get(args.data.a[j], AttributeOf(args))
  /\ args.domain = Undef
  /\ args.key = Undef
  /\ args.isMultiSeries \in {Undef, Bool(FALSE)}
  /\ args.scale \in {Undef, ScaleOrdinal}

\* C1: under C1_Case, getColor called with point = data[i] returns the palette
\* entry at position i mod |P| (positions counted from 0), for every index i
\* of data.
C1_PaletteByPosition ==
  C1_Case =>
    \A i \in 1..Len(args.data.a) :
      args.point = args.data.a[i] =>
        ret = args.colorScheme.a[((i - 1) % Len(args.colorScheme.a)) + 1]

\* a series of three elements on a palette of two, the point being the third
C1_Witness ==
  /\ C1_Case
  /\ Len(args.data.a) = 3
  /\ Len(args.colorScheme.a) = 2
  /\ args.point = args.data.a[3]
  /\ ret = args.colorScheme.a[1]

\* C2: for a colorScheme that is a function, getColor returns
\* colorScheme(point, index, active) with the caller's point, index and
\* active, whatever data, domain, key, attribute, scale and isMultiSeries are.
C2_CallbackDispatch ==
  (pc = "returned" /\ args.colorScheme.t = "function") =>
    ret = Applied(args.colorScheme.id, args.point, args.index, args.active)

C2_Witness ==
  /\ pc = "returned"
  /\ args.colorScheme.t = "function"
  /\ args.index = Num(1)
  /\ args.active # Undef
  /\ args.point # Undef
  /\ args.domain # Undef
  /\ args.key # Undef
  /\ args.scale = ScaleQuantile
  /\ args.isMultiSeries = Bool(TRUE)
  /\ ret = Applied(args.colorScheme.id, args.point, Num(1), args.active)

\* colorScheme is a literal: neither an array nor a function
IsLiteral(v) == v.t \notin {"array", "function"}

\* C3 as stated: every literal colorScheme, every string included, is returned
\* unchanged.
C3_LiteralPassthroughAsStated ==
  (pc = "returned" /\ IsLiteral(args.colorScheme)) => ret = args.colorScheme

\* C3 as amended: every literal colorScheme other than a string that names a
\* predefined scheme is returned unchanged, whatever the other properties are.
C3_LiteralPassthrough ==
  ( /\ pc = "returned"
    /\ IsLiteral(args.colorScheme)
    /\ ~(args.colorScheme.t = "string"
           /\ Truthy(schemeLookup(args.colorScheme.s))) )
    => ret = args.colorScheme

\* a string that names no scheme, with domain, key, scale and data all set
C3_Witness ==
  /\ pc = "returned"
  /\ args.colorScheme = Str("unknownScheme")
  /\ args.domain # Undef
  /\ args.key # Undef
  /\ args.data # Undef
  /\ args.scale = ScaleQuantile
  /\ ret = Str("unknownScheme")

\* data is a non-empty array of series: objects whose data field is an array
IsMultiSeriesData(v) ==
  /\ v.t = "array"
  /\ Len(v.a) > 0
  /\ \A i \in 1..Len(v.a) :
       v.a[i].t = "object" /\ Get(v.a[i], "data").t = "array"

SeriesLen(v, i) == Len(v.a[i].f.data.a)

C4_Case ==
  /\ pc = "returned"
  /\ args.colorScheme.t = "array"
  /\ args.domain = Undef
  /\ args.isMultiSeries = Bool(TRUE)
  /\ IsMultiSeriesData(args.data)

C8_NoFailingPath == pc = "returned" => ret # Throw

(***************************************************************************)
(* rangeHelper on its own, checked under SpecRange.                        *)
(***************************************************************************)
RangeElems ==
  { Obj([key |-> Str("a")]),
    Obj([key |-> Str("a"), data |-> Obj([key |-> Str("b")])]),
    Obj([data |-> Obj([key |-> Str("c")])]),
    Obj([data |-> Obj([id |-> Num(7)])]),
    Obj([id |-> Num(0), data |-> Num(5)]),
    Obj([key |-> Null]),
    Null,
    Undef }

RangeArgs ==
  [point : {Arr(s) : s \in SeqsUpTo(RangeElems, MaxSeries)} \cup {Undef},
   attribute : {"key", "id"}]

InitRange ==
  /\ pc = "start"
  /\ args \in RangeArgs
  /\ Idle

\* one call of rangeHelper with the arguments in args
RangeHelperCall ==
  /\ pc = "start"
  /\ ret' = rangeHelper(args.point, args.attribute)
  /\ pc' = "returned"
  /\ UNCHANGED <<args, after, domain, scaleDom, first, extended, valueScales>>

NextRange == RangeHelperCall

SpecRange == InitRange /\ [][NextRange]_vars

\* the element has the attribute itself
HasOwn(e, attribute) == e.t = "object" /\ attribute \in DOMAIN e.f

\* the element's nested data field has the attribute
HasNested(e, attribute) ==
  /\ e.t = "object"
  /\ "data" \in DOMAIN e.f
  /\ e.f.data.t = "object"
  /\ attribute \in DOMAIN e.f.data.f

\* C10: rangeHelper returns a sequence as long as the series whose entry at
\* position i is the element's own attribute value when it has one, otherwise
\* the attribute value of its nested data field when that has one, otherwise
\* the position i, also for an absent element.
C10_DomainDerivation ==
  (pc = "returned" /\ args.point.t = "array") =>
    /\ ret.t = "array"
    /\ Len(ret.a) = Len(args.point.a)
    /\ \A i \in 1..Len(args.point.a) :
         LET e == args.point.a[i]
         IN ret.a[i] = IF HasOwn(e, args.attribute) THEN e.f[args.attribute]
                       ELSE IF HasNested(e, args.attribute)
                       THEN e.f.data.f[args.attribute]
                       ELSE Num(i - 1)

\* own and nested attribute both present, nested only, and an absent element
C10_Witness ==
  /\ pc = "returned"
  /\ args.attribute = "key"
  /\ args.point = Arr(<<Obj([key |-> Str("a"), data |-> Obj([key |-> Str("b")])]),
                        Obj([data |-> Obj([key |-> Str("c")])]),
                        Null>>)
  /\ ret = Arr(<<Str("a"), Str("c"), Num(2)>>)

(***************************************************************************)
(* Runs of several getColor calls, checked under SpecHistory.              *)
(***************************************************************************)
\* most calls of a run
MaxCalls == 3

HistoryProps ==
  {Props(cs, pt, d, Undef, Undef, dm, k, Undef, sc, Undef) :
     cs \in {Arr(SubSeq(Colors, 1, 2))},
     pt \in {Undef, Obj([key |-> Str("a")])},
     d \in {Undef, Arr(<<Obj([key |-> Str("b")]), Obj([key |-> Str("a")])>>)},
     dm \in {Undef, Arr(<<Str("b"), Str("a"), Str("b")>>), Arr(<<Num(MaxVal), Num(0)>>)},
     k \in {Undef, Str("a"), Str("z")},
     sc \in {Undef, ScaleQuantile}}
    \cup {Props(cs, Obj([key |-> Str("a")]), Undef, Num(1), Undef, Undef, Undef,
                Undef, Undef, Undef) : cs \in {Fn("byIndex"), Str("purple"), Str("cybertron")}}

InitHistory ==
  /\ pc = "start"
  /\ args = NoCall
  /\ Idle

\* the scale constructed by a call took a key outside its domain
Extends(props, r) ==
  /\ r.domain # NoDomain
  /\ r.scaleDom # NoScale
  /\ resolveScheme(props.colorScheme).t = "array"
  /\ props.scale = Undef
  /\ r.ret # Throw
  /\ Len(r.scaleDom) > Len(Dedup(r.domain.a))

\* one more call of getColor in a run of calls
GetColorAgain ==
  /\ pc \in {"start", "returned"}
  /\ IF first = NoCall THEN TRUE ELSE first.calls < MaxCalls
  /\ \E props \in HistoryProps :
       LET r == getColor(props, scaleDom)
       IN /\ args' = props
          /\ after' = r.props
          /\ ret' = r.ret
          /\ domain' = r.domain
          /\ scaleDom' = r.scaleDom
          /\ extended' = (extended \/ Extends(props, r))
          /\ first' = IF first = NoCall
                      THEN [props |-> props, ret |-> r.ret, calls |-> 1]
                      ELSE [first EXCEPT !.calls = @ + 1]
  /\ pc' = "returned"
  /\ UNCHANGED valueScales

NextHistory == GetColorAgain

SpecHistory == InitHistory /\ [][NextHistory]_vars

uniqueBy(data) ==
  IF data.t # "array" THEN Throw
  ELSE LET inner(a) ==
             IF Get(a, "data").t = "array"
             THEN [j \in 1..Len(a.f.data.a) |-> Get(a.f.data.a[j], "value")]
             ELSE <<Get(a, "data")>>
           RECURSIVE flat(_)
           flat(i) == IF i > Len(data.a) THEN <<>>
                      ELSE inner(data.a[i]) \o flat(i + 1)
           all == flat(1)
       IN IF \E i \in 1..Len(all) : all[i].t \in {"throw", "array"} THEN Throw
          ELSE Arr(Dedup(all))

\* d3-array extent(values): [min, max] of the values that are not null or
\* undefined, [undefined, undefined] when there is none.  The values of the
\* model's datasets are numbers or absent.
extent(values) ==
  LET nums == {values.a[i].n : i \in {j \in 1..Len(values.a) : values.a[j].t = "number"}}
  IN IF nums = {} THEN Arr(<<Undef, Undef>>)
     ELSE Arr(<<Num(CHOOSE x \in nums : \A y \in nums : x <= y),
                Num(CHOOSE x \in nums : \A y \in nums : x >= y)>>)

\* getValueScale(data, colorScheme, emptyColor): the returned function, as the
\* three values it closes over; a TypeError when data cannot be iterated
getValueScale(data, colorScheme, emptyColor) ==
  IF uniqueBy(data) = Throw THEN Throw
  ELSE [t |-> "function", valueDomain |-> extent(uniqueBy(data)),
        colorScheme |-> colorScheme, emptyColor |-> emptyColor]

\* the props the returned function passes to getColor (lines 119-124)
valueScaleProps(scaleFn, point) ==
  Props(scaleFn.colorScheme, Undef, Undef, Undef, Undef, scaleFn.valueDomain,
        point, Undef, ScaleQuantile, Undef)

\* the function getValueScale returned, invoked with a point (lines 112-125)
valueScaleFalsyEmpty(scaleFn, point) ==
  IF ~Truthy(point) THEN scaleFn.emptyColor
  ELSE getColor(valueScaleProps(scaleFn, point), NoScale).ret

valueScale(scaleFn, point) ==
  IF point = Undef \/ point = Null THEN scaleFn.emptyColor
  ELSE getColor(valueScaleProps(scaleFn, point), NoScale).ret

\* the length of the model's strings
StrLen(str) ==
  CASE str = "red" -> 3
    [] str = "blue" -> 4
    [] str = "grey" -> 4
    [] str = "black" -> 5
    [] str = "green" -> 5
    [] OTHER -> 1

\* Object.keys(v) is a TypeError on null and undefined
ObjectKeysThrows(v) == v.t \in {"null", "undefined"}

\* Object.keys(v) otherwise: the property names of an object, the index names
\* of a string or an array, nothing for another value
ObjectKeys(v) ==
  CASE v.t = "object" -> DOMAIN v.f
    [] v.t = "string" -> {ToString(i) : i \in 0..(StrLen(v.s) - 1)}
    [] v.t = "array" -> {ToString(i) : i \in 0..(Len(v.a) - 1)}
    [] OTHER -> {}

\* getColorSchemeForProperty(colorScheme, colorSchemeProperty)
getColorSchemeForProperty(colorScheme, colorSchemeProperty) ==
  IF colorScheme.t # "array" THEN colorScheme
  ELSE Arr([i \in 1..Len(colorScheme.a) |->
         LET schemeItem == colorScheme.a[i]
         IN IF TypeofObject(schemeItem)
            THEN IF schemeItem = Null THEN Undef
                 ELSE Get(schemeItem, colorSchemeProperty)
            ELSE schemeItem])

\* createColorSchemeValueScales(data, colorScheme, emptyColor): the Map, as a
\* function from its keys to the value scales (the order of a Map's keys is
\* not modelled)
createColorSchemeValueScales(data, colorScheme, emptyColor) ==
  LET isColorSchemeObjectArray ==
        /\ colorScheme.t = "array"
        /\ Len(colorScheme.a) > 0
        /\ TypeofObject(colorScheme.a[1])
  IN IF isColorSchemeObjectArray
     THEN IF \E i \in 1..Len(colorScheme.a) : ObjectKeysThrows(colorScheme.a[i])
          THEN Throw
          ELSE LET colorSchemeProperties ==
                     UNION {ObjectKeys(colorScheme.a[i]) : i \in 1..Len(colorScheme.a)}
                   scales == [key \in colorSchemeProperties |->
                                getValueScale(data,
                                  getColorSchemeForProperty(colorScheme, key),
                                  emptyColor)]
               IN IF \E key \in colorSchemeProperties : scales[key] = Throw
                  THEN Throw
                  ELSE [t |-> "map", m |-> scales]
     ELSE IF getValueScale(data, colorScheme, emptyColor) = Throw THEN Throw
          ELSE [t |-> "map",
                m |-> [key \in {"fill"} |->
                         getValueScale(data, colorScheme, emptyColor)]]

\* getColorSchemeStyles(point, valueScales)
getColorSchemeStyles(point, scales) ==
  Obj([key \in DOMAIN scales.m |-> valueScale(scales.m[key], point)])

(***************************************************************************)
(* Runs that build value scales and use them, checked under SpecScales.    *)
(***************************************************************************)
\* longest palette of style objects
MaxStyled == 2

\* datasets: absent, empty, flat ({key, data: number}), nested (series whose
\* elements carry a value), and one with an absent element
ValueData ==
  { Undef,
    Arr(<<>>),
    Arr(<<Obj([key |-> Str("a"), data |-> Num(1)])>>),
    Arr(<<Obj([key |-> Str("a"), data |-> Num(MaxVal)]),
          Obj([key |-> Str("b"), data |-> Num(0)]),
          Obj([key |-> Str("c"), data |-> Num(MaxVal)])>>),
    Arr(<<Obj([key |-> Str("c"),
               data |-> Arr(<<Obj([key |-> Str("x"), data |-> Num(9), value |-> Num(2)]),
                              Obj([key |-> Str("y"), data |-> Num(9), value |-> Num(1)]),
                              Obj([key |-> Str("z"), data |-> Num(9)])>>)])>>),
    Arr(<<Obj([key |-> Str("a"), data |-> Num(1)]), Null>>) }

StyleEntries ==
  { Obj([fill |-> Str("red"), stroke |-> Str("black")]),
    Obj([fill |-> Str("blue")]),
    Str("red"),
    Null }

StyledPalettes ==
  {Arr(s) : s \in SeqsUpTo(StyleEntries, MaxStyled) \ {<<>>}}

SchemeInputs ==
  Palettes \cup StyledPalettes
    \cup {Str("purple"), Str("cybertron"), Fn("byIndex"), Undef}

Points == {Undef, Null, Str("a")} \cup {Num(v) : v \in 0..MaxVal}

ScalesArgs ==
  [data : ValueData, colorScheme : SchemeInputs, emptyColor : {Str("grey")},
   key : {""}, point : {Undef}]

InitScales ==
  /\ pc = "start"
  /\ args \in ScalesArgs
  /\ Idle

\* createColorSchemeValueScales with the arguments in args
CreateCall ==
  /\ pc = "start"
  /\ valueScales' = createColorSchemeValueScales(args.data, args.colorScheme,
                                                 args.emptyColor)
  /\ ret' = valueScales'
  /\ pc' = "created"
  /\ UNCHANGED <<args, after, domain, scaleDom, first, extended>>

\* one of the value scales of the map is invoked with a point
ValueScaleCall ==
  /\ pc \in {"created", "scaled", "styled"}
  /\ valueScales.t = "map"
  /\ \E key \in DOMAIN valueScales.m, point \in Points :
       /\ args' = [args EXCEPT !.key = key, !.point = point]
       /\ ret' = valueScale(valueScales.m[key], point)
  /\ pc' = "scaled"
  /\ UNCHANGED <<after, domain, scaleDom, first, extended, valueScales>>

\* getColorSchemeStyles with a point and the map
StylesCall ==
  /\ pc \in {"created", "scaled", "styled"}
  /\ valueScales.t = "map"
  /\ \E point \in Points :
       /\ args' = [args EXCEPT !.key = "", !.point = point]
       /\ ret' = getColorSchemeStyles(point, valueScales)
  /\ pc' = "styled"
  /\ UNCHANGED <<after, domain, scaleDom, first, extended, valueScales>>

NextScales ==
  \/ CreateCall
  \/ ValueScaleCall
  \/ StylesCall

SpecScales == InitScales /\ [][NextScales]_vars

DataIterable(data) ==
  data.t = "array" /\ \A i \in 1..Len(data.a) : data.a[i].t = "object"

\* colorScheme is an array whose first element is a style object
IsStyledPalette(v) == v.t = "array" /\ Len(v.a) > 0 /\ v.a[1].t = "object"

\* the property keys of a palette entry
PropertyKeys(e) == IF e.t \in {"null", "undefined"} THEN {} ELSE ObjectKeys(e)

\* a palette projected to one property: style objects give their value at the
\* property, non-object entries are kept
Projected(v, key) ==
  Arr([i \in 1..Len(v.a) |->
         IF v.a[i].t = "object" THEN Get(v.a[i], key)
         ELSE IF v.a[i] = Null THEN Undef
         ELSE v.a[i]])

\* C6 as stated: for a colorScheme that is an array whose first element is a
\* style object, createColorSchemeValueScales returns a map whose keys are the
\* property keys of all palette entries, the scale for key k being built over
\* the palette projected to k, and that scale returns only entries of the
\* projected palette or emptyColor.
C6_StyledScalesAsStated ==
  /\ (pc = "created" /\ IsStyledPalette(args.colorScheme) /\ DataIterable(args.data)) =>
       /\ valueScales.t = "map"
       /\ DOMAIN valueScales.m
            = UNION {PropertyKeys(args.colorScheme.a[i]) : i \in 1..Len(args.colorScheme.a)}
       /\ \A key \in DOMAIN valueScales.m :
            valueScales.m[key].colorScheme = Projected(args.colorScheme, key)
  /\ (pc = "scaled" /\ IsStyledPalette(args.colorScheme)) =>
       ret \in Range(Projected(args.colorScheme, args.key).a) \cup {args.emptyColor}

\* C7 as stated: for a colorScheme that is not an array with a style object as
\* first element, createColorSchemeValueScales returns a map with the one key
\* "fill", whose value scale is built over the whole colorScheme.
C7_DefaultFillAsStated ==
  (pc = "created" /\ ~IsStyledPalette(args.colorScheme) /\ DataIterable(args.data)) =>
    /\ valueScales.t = "map"
    /\ DOMAIN valueScales.m = {"fill"}
    /\ valueScales.m["fill"].colorScheme = args.colorScheme
    /\ valueScales.m["fill"].emptyColor = args.emptyColor

====
